---- MODULE Spec2Model ----
(***************************************************************************)
(* Flow registration of prefect_server/graphql/flows.py: the create_flow   *)
(* mutation resolves the version group of a submitted flow, creates the    *)
(* flow and archives every other unarchived version of the group.          *)
(*                                                                         *)
(* The flow store (models.Flow queries, api.flows.create_flow and          *)
(* api.flows.archive_flow) is an external collaborator: its operations are *)
(* modelled from the FlowStore contract, each one atomic, each one able to *)
(* fail.  A request is a coroutine: it runs from one await to the next     *)
(* without interruption, so one action is one awaited store operation      *)
(* together with the Python code up to the next await.                     *)
(***************************************************************************)
EXTENDS Naturals, Sequences, FiniteSets, TLC

\* ---------------------------------------------------------------- bounds

\* Records in the store when a sequential run starts.
MaxInit == 2
\* Records in the store when a concurrent run starts.
MaxInitConcurrent == 1
\* Requests in flight in a concurrent run.
NumRequests == 2

\* ---------------------------------------------------------------- values

\* Python's None and the empty string: both are falsy, only None `is None`.
None == "<None>"
Empty == ""

Projects == {"P1", "P2"}
Names == {"etl", "other"}
Groups == {"G1", "G2"}

\* What a caller may submit as project_id and version_group_id.
ProjectInputs == Projects \cup {None, Empty}
GroupInputs == Groups \cup {None, Empty}

Requests == 1..NumRequests

\* Python truthiness of an optional string: `if x:` / `if not x:`.
Truthy(x) == x # None /\ x # Empty

Max(S) == CHOOSE m \in S : \A x \in S : x <= m

VARIABLES
    flows,              \* the store: flows[i] is the FlowRecord with id i
    creator,            \* history: the request whose create made flows[i] (0: stored before)
    pc,                 \* where each request stands
    input,              \* the submission each request received
    version_group_id,   \* local of resolve_create_flow
    new_version_group,  \* local of resolve_create_flow
    flow_id,            \* local of resolve_create_flow (0: not yet created)
    versions,           \* all_other_unarchived_versions not yet iterated
    error,              \* what the request raised to its caller
    queried,            \* history: the store as the sibling query of a request read it
    call,               \* the mutation field a request arrived by, and its raw argument
    ops                 \* the store operations each request issued, in order

vars == <<flows, creator, pc, input, version_group_id, new_version_group, flow_id,
          versions, error, queried, call, ops>>

\* ----------------------------------------------------------------- store

FlowIds(fl) == 1..Len(fl)

\* The identifier the store mints for a flow created without one.
MintVersionGroupId(fl) == "vg-" \o ToString(Len(fl) + 1)

\* The created timestamp of the next record: later than every stored one.
NextCreated(fl) == IF fl = <<>> THEN 1 ELSE Max({fl[i].created : i \in FlowIds(fl)}) + 1

\* api.flows.create_flow: appends one unarchived record, under the given
\* version group or a freshly minted one.
StoreCreate(fl, project_id, name, vgid) ==
    Append(fl, [project_id       |-> project_id,
                name             |-> name,
                version_group_id |-> IF Truthy(vgid) THEN vgid ELSE MintVersionGroupId(fl),
                archived         |-> FALSE,
                created          |-> NextCreated(fl)])

\* api.flows.archive_flow when it succeeds: sets the archived flag.
StoreArchive(fl, id) == [fl EXCEPT ![id].archived = TRUE]

\* How one archive_flow call may end: it archives and returns True, it
\* returns False leaving the record as it is, or it raises.
ArchiveOutcomes == {"ok", "false", "raise"}

\* ------------------------------------------------------- resolve_create_flow

\* Line 31: the only validation of project_id.
ProjectIdInvalid(project_id) == project_id = None

\* Line 37: whether the name lookup (rather than the group lookup) runs.
NoGroupSupplied(vgid) == ~Truthy(vgid)

\* Mutant of LookupByName: the order is ascending, the oldest match is taken.
LookupByNameOldest(fl, project_id, name) ==
    LET matches == {i \in FlowIds(fl) : /\ fl[i].project_id = project_id
                                        /\ fl[i].name = name}
    IN {i \in matches : \A j \in matches : fl[i].created <= fl[j].created}

\* Mutant of LookupByName: the project_id condition is missing.
LookupByNameAnyProject(fl, project_id, name) ==
    LET matches == {i \in FlowIds(fl) : fl[i].name = name}
    IN {i \in matches : \A j \in matches : fl[j].created <= fl[i].created}

\* Lines 38-45: Flow.where(project_id, name).first(order_by created desc).
\* The set of records the query may return: those of latest creation among
\* the matches (the query has no second ordering key).
LookupByName(fl, project_id, name) ==
    LET matches == {i \in FlowIds(fl) : /\ fl[i].project_id = project_id
                                        /\ fl[i].name = name}
    IN {i \in matches : \A j \in matches : fl[j].created <= fl[i].created}

\* Mutant of LookupByGroup: only unarchived records are looked at.
LookupByGroupUnarchived(fl, vgid) ==
    {i \in FlowIds(fl) : fl[i].version_group_id = vgid /\ ~fl[i].archived}

\* Lines 51-53: Flow.where(version_group_id).first(): any record of the group.
LookupByGroup(fl, vgid) ==
    {i \in FlowIds(fl) : fl[i].version_group_id = vgid}

\* Lines 46-48 and 54-55: the locals after the lookup returned `found`
\* (a flow id, or 0 when the query returned nothing).
ResolvedGroup(fl, vgid, found) ==
    IF NoGroupSupplied(vgid) /\ found # 0 THEN fl[found].version_group_id ELSE vgid

ResolvedNew(found) == found = 0

\* Mutant of SupersessionRuns: the condition is inverted.
SupersessionRunsInverted(vgid) == ~Truthy(vgid)

\* Line 67: whether supersession runs.
SupersessionRuns(vgid) == Truthy(vgid)

\* Mutant of OtherUnarchivedVersions: the id condition is missing.
AllUnarchivedVersions(fl, vgid, id) ==
    {i \in FlowIds(fl) : fl[i].version_group_id = vgid /\ ~fl[i].archived}

\* Mutant of OtherUnarchivedVersions: the version_group_id condition is missing.
OtherUnarchivedAnyGroup(fl, vgid, id) ==
    {i \in FlowIds(fl) : i # id /\ ~fl[i].archived}

\* Lines 68-76: the other unarchived versions of the group.
OtherUnarchivedVersions(fl, vgid, id) ==
    {i \in FlowIds(fl) : /\ fl[i].version_group_id = vgid
                         /\ i # id
                         /\ ~fl[i].archived}

\* One store operation as a request issued it: the operation, the string it
\* was given (a name or a version group), the flow id it was given or
\* returned (0: none) and how it ended.
Op(name, arg, flow, result) ==
    [op |-> name, arg |-> arg, flow |-> flow, result |-> result]

Issue(r, name, arg, flow, result) ==
    ops' = [ops EXCEPT ![r] = Append(@, Op(name, arg, flow, result))]

LookupOp(vgid) == IF NoGroupSupplied(vgid) THEN "lookup_name" ELSE "lookup_group"
LookupArg(name, vgid) == IF NoGroupSupplied(vgid) THEN name ELSE vgid

Fail(r, err) ==
    /\ pc' = [pc EXCEPT ![r] = "failed"]
    /\ error' = [error EXCEPT ![r] = err]

\* Mutant of Reject: the validation runs after the flow was created.
RejectAfterCreate(r) ==
    /\ pc[r] = "idle"
    /\ \E p \in ProjectInputs, n \in Names, g \in GroupInputs :
         /\ ProjectIdInvalid(p)
         /\ input' = [input EXCEPT ![r] =
                         [project_id |-> p, name |-> n, version_group_id |-> g]]
         /\ flows' = StoreCreate(flows, p, n, g)
    /\ creator' = Append(creator, r)
    /\ Fail(r, "ValueError")
    /\ UNCHANGED <<version_group_id, new_version_group, flow_id, versions, queried, ops>>

\* Lines 24-32: the request is received with a project_id that fails the
\* validation; ValueError is raised before any await.
Reject(r) ==
    /\ pc[r] = "idle"
    /\ \E p \in ProjectInputs, n \in Names, g \in GroupInputs :
         /\ ProjectIdInvalid(p)
         /\ input' = [input EXCEPT ![r] =
                         [project_id |-> p, name |-> n, version_group_id |-> g]]
    /\ Fail(r, "ValueError")
    /\ UNCHANGED <<flows, creator, version_group_id, new_version_group, flow_id,
                   versions, queried, ops>>

\* Lines 24-55 when the lookup query raises: the error reaches the caller.
ResolveFails(r) ==
    /\ pc[r] = "idle"
    /\ \E p \in ProjectInputs, n \in Names, g \in GroupInputs :
         /\ ~ProjectIdInvalid(p)
         /\ input' = [input EXCEPT ![r] =
                         [project_id |-> p, name |-> n, version_group_id |-> g]]
         /\ Issue(r, LookupOp(g), LookupArg(n, g), 0, "raise")
    /\ Fail(r, "StoreFailure")
    /\ UNCHANGED <<flows, creator, version_group_id, new_version_group, flow_id, versions,
                   queried>>

\* Mutant of Resolve: supersession is started right after the lookup, before
\* the flow is created.
ResolveThenSupersede(r) ==
    /\ pc[r] = "idle"
    /\ \E p \in ProjectInputs, n \in Names, g \in GroupInputs :
         /\ ~ProjectIdInvalid(p)
         /\ input' = [input EXCEPT ![r] =
                         [project_id |-> p, name |-> n, version_group_id |-> g]]
         /\ LET candidates == IF NoGroupSupplied(g) THEN LookupByName(flows, p, n)
                                                    ELSE LookupByGroup(flows, g)
            IN \E found \in (IF candidates = {} THEN {0} ELSE candidates) :
                 /\ version_group_id' = [version_group_id EXCEPT ![r] =
                                            ResolvedGroup(flows, g, found)]
                 /\ new_version_group' = [new_version_group EXCEPT ![r] =
                                            ResolvedNew(found)]
                 /\ Issue(r, LookupOp(g), LookupArg(n, g), found, "ok")
                 /\ pc' = [pc EXCEPT ![r] =
                              IF found = 0 THEN "resolved" ELSE "created"]
    /\ UNCHANGED <<flows, creator, flow_id, versions, error, queried>>

\* Lines 24-55: validation, the lookup and the locals it sets.
Resolve(r) ==
    /\ pc[r] = "idle"
    /\ \E p \in ProjectInputs, n \in Names, g \in GroupInputs :
         /\ ~ProjectIdInvalid(p)
         /\ input' = [input EXCEPT ![r] =
                         [project_id |-> p, name |-> n, version_group_id |-> g]]
         /\ LET candidates == IF NoGroupSupplied(g) THEN LookupByName(flows, p, n)
                                                    ELSE LookupByGroup(flows, g)
            IN \E found \in (IF candidates = {} THEN {0} ELSE candidates) :
                 /\ version_group_id' = [version_group_id EXCEPT ![r] =
                                            ResolvedGroup(flows, g, found)]
                 /\ new_version_group' = [new_version_group EXCEPT ![r] =
                                            ResolvedNew(found)]
                 /\ Issue(r, LookupOp(g), LookupArg(n, g), found, "ok")
    /\ pc' = [pc EXCEPT ![r] = "resolved"]
    /\ UNCHANGED <<flows, creator, flow_id, versions, error, queried>>

\* Lines 57-64 when api.flows.create_flow raises: nothing is created.
CreateFails(r) ==
    /\ pc[r] = "resolved"
    /\ Issue(r, "create", version_group_id[r], 0, "raise")
    /\ Fail(r, "StoreFailure")
    /\ UNCHANGED <<flows, creator, input, version_group_id, new_version_group, flow_id,
                   versions, queried, call>>

\* Lines 57-67 and 81: the flow is created; without a version group the
\* request returns at once.
Create(r) ==
    /\ pc[r] = "resolved"
    /\ flows' = StoreCreate(flows, input[r].project_id, input[r].name,
                            version_group_id[r])
    /\ creator' = Append(creator, r)
    /\ flow_id' = [flow_id EXCEPT ![r] = Len(flows) + 1]
    /\ Issue(r, "create", version_group_id[r], Len(flows) + 1, "ok")
    /\ pc' = [pc EXCEPT ![r] =
                 IF SupersessionRuns(version_group_id[r]) THEN "created" ELSE "done"]
    /\ UNCHANGED <<input, version_group_id, new_version_group, versions, error, queried,
                   call>>

\* Lines 68-76 when the sibling query raises.
QueryFails(r) ==
    /\ pc[r] = "created"
    /\ Issue(r, "query_versions", version_group_id[r], 0, "raise")
    /\ Fail(r, "StoreFailure")
    /\ UNCHANGED <<flows, creator, input, version_group_id, new_version_group, flow_id,
                   versions, queried, call>>

\* Mutant of QueryVersions: the sibling query also filters on the project of
\* the submission.
QueryVersionsSameProject(r) ==
    /\ pc[r] = "created"
    /\ LET found == {i \in OtherUnarchivedVersions(flows, version_group_id[r], flow_id[r]) :
                        flows[i].project_id = input[r].project_id}
       IN /\ versions' = [versions EXCEPT ![r] = found]
          /\ pc' = [pc EXCEPT ![r] = IF found = {} THEN "done" ELSE "archiving"]
    /\ queried' = [queried EXCEPT ![r] = flows]
    /\ Issue(r, "query_versions", version_group_id[r], 0, "ok")
    /\ UNCHANGED <<flows, creator, input, version_group_id, new_version_group, flow_id,
                   error, call>>

\* Lines 68-78 and 81: the sibling query; with nothing to archive the
\* request returns.
QueryVersions(r) ==
    /\ pc[r] = "created"
    /\ LET found == OtherUnarchivedVersions(flows, version_group_id[r], flow_id[r])
       IN /\ versions' = [versions EXCEPT ![r] = found]
          /\ pc' = [pc EXCEPT ![r] = IF found = {} THEN "done" ELSE "archiving"]
    /\ queried' = [queried EXCEPT ![r] = flows]
    /\ Issue(r, "query_versions", version_group_id[r], 0, "ok")
    /\ UNCHANGED <<flows, creator, input, version_group_id, new_version_group, flow_id,
                   error, call>>

\* Lines 78-79 when api.flows.archive_flow raises: the exception leaves the
\* loop and the function.
AfterArchiveRaise(r) ==
    /\ Fail(r, "StoreFailure")
    /\ UNCHANGED <<flows, versions>>

\* Lines 78-81 when api.flows.archive_flow returns: its result is dropped,
\* the loop goes on and after the last version the request returns.
AfterArchiveReturn(r, v, outcome) ==
    /\ flows' = IF outcome = "ok" THEN StoreArchive(flows, v) ELSE flows
    /\ versions' = [versions EXCEPT ![r] = @ \ {v}]
    /\ pc' = [pc EXCEPT ![r] = IF versions[r] = {v} THEN "done" ELSE "archiving"]
    /\ UNCHANGED error

\* Lines 78-81: one iteration of the loop over the versions found, taken in
\* the order the query returned them (unspecified).
Archive(r) ==
    /\ pc[r] = "archiving"
    /\ \E v \in versions[r], outcome \in ArchiveOutcomes :
         /\ Issue(r, "archive", "", v, outcome)
         /\ IF outcome = "raise" THEN AfterArchiveRaise(r)
                                 ELSE AfterArchiveReturn(r, v, outcome)
    /\ UNCHANGED <<creator, input, version_group_id, new_version_group, flow_id,
                   queried, call>>

\* Lines 57-79: the caller cancels the request while it is suspended at one
\* of its awaits.  The coroutine has no try/finally and shields nothing:
\* CancelledError is raised at the await and leaves the function.
Cancel(r) ==
    /\ pc[r] \in {"resolved", "created", "archiving"}
    /\ pc' = [pc EXCEPT ![r] = "cancelled"]
    /\ error' = [error EXCEPT ![r] = "CancelledError"]
    /\ UNCHANGED <<flows, creator, input, version_group_id, new_version_group, flow_id,
                   versions, queried, call, ops>>

\* Lines 24-55: the code from the entry of resolve_create_flow to its first
\* await, for the submission it was handed.
Enter(r) ==
    \/ Reject(r)
    \/ ResolveFails(r)
    \/ Resolve(r)

\* Lines 22-81: the create_flow mutation, called with the submission as it
\* arrived.
resolve_create_flow(r) ==
    \/ Reject(r) /\ UNCHANGED call
    \/ ResolveFails(r) /\ UNCHANGED call
    \/ Resolve(r) /\ UNCHANGED call
    \/ CreateFails(r)
    \/ Create(r)
    \/ QueryFails(r)
    \/ QueryVersions(r)
    \/ Archive(r)

\* ------------------------------------------------------------ specifications

FlowRecords(n) ==
    [project_id : Projects, name : Names, version_group_id : Groups,
     archived : BOOLEAN, created : 1..n]

\* The stores of n records: any projects, names, groups and archived flags;
\* creation times do not decrease with the id and may tie.
StoresOfLen(n) ==
    {s \in [1..n -> FlowRecords(n)] :
        /\ n > 0 => s[1].created = 1
        /\ \A i \in 1..(n - 1) : s[i + 1].created \in {s[i].created, s[i].created + 1}}

Stores(max) == UNION {StoresOfLen(n) : n \in 0..max}

NoInput == [project_id |-> None, name |-> "etl", version_group_id |-> None]

\* A request that arrives by create_flow carries its submission in `input`.
DirectCall == [field |-> "create_flow", arg |-> None]

InitWith(max) ==
    /\ flows \in Stores(max)
    /\ creator = [i \in FlowIds(flows) |-> 0]
    /\ pc = [r \in Requests |-> "idle"]
    /\ input = [r \in Requests |-> NoInput]
    /\ version_group_id = [r \in Requests |-> None]
    /\ new_version_group = [r \in Requests |-> TRUE]
    /\ flow_id = [r \in Requests |-> 0]
    /\ versions = [r \in Requests |-> {}]
    /\ error = [r \in Requests |-> "none"]
    /\ queried = [r \in Requests |-> <<>>]
    /\ call = [r \in Requests |-> DirectCall]
    /\ ops = [r \in Requests |-> <<>>]

\* One request against any store: a call with no concurrent interference.
Init == InitWith(MaxInit)
Next == resolve_create_flow(1)
Spec == Init /\ [][Next]_vars

\* ------------------------------------ resolve_create_flow_from_compressed_string

\* prefect.utilities.graphql.decompress and its inverse: a compressed flow
\* is a string other than the document it encodes; decompress raises on
\* every string that is not the compression of a document.
Compress(name) == "gz:" \o name
Payloads == {Compress(n) : n \in Names} \cup {"etl", "not-compressed", None}
Decodable(payload) == \E n \in Names : Compress(n) = payload
Decompress(payload) == CHOOSE n \in Names : Compress(n) = payload

CompressedCall(payload) ==
    [field |-> "create_flow_from_compressed_string", arg |-> payload]

\* Mutant of DecompressFails: the payload is decompressed after the lookup
\* was issued.
DecompressFailsAfterLookup(r) ==
    /\ pc[r] = "idle"
    /\ \E p \in Payloads :
         /\ ~Decodable(p)
         /\ call' = [call EXCEPT ![r] = CompressedCall(p)]
    /\ Issue(r, "lookup_name", None, 0, "ok")
    /\ Fail(r, "TypeError")
    /\ UNCHANGED <<flows, creator, input, version_group_id, new_version_group, flow_id,
                   versions, queried>>

\* Lines 14-17: decompress raises, the bare except turns it into TypeError.
DecompressFails(r) ==
    /\ pc[r] = "idle"
    /\ \E p \in Payloads :
         /\ ~Decodable(p)
         /\ call' = [call EXCEPT ![r] = CompressedCall(p)]
    /\ Fail(r, "TypeError")
    /\ UNCHANGED <<flows, creator, input, version_group_id, new_version_group, flow_id,
                   versions, queried, ops>>

\* Lines 14-19 and 24-55: the payload decompresses, replaces
\* input["serialized_flow"], and resolve_create_flow runs on it up to its
\* first await.
EnterDecompressed(r) ==
    \E p \in Payloads :
        /\ Decodable(p)
        /\ call' = [call EXCEPT ![r] = CompressedCall(p)]
        /\ Enter(r)
        /\ input'[r].name = Decompress(p)

\* Lines 10-19: the mutation, and behind its `return await` the rest of
\* resolve_create_flow.
resolve_create_flow_from_compressed_string(r) ==
    \/ DecompressFails(r)
    \/ EnterDecompressed(r)
    \/ CreateFails(r)
    \/ Create(r)
    \/ QueryFails(r)
    \/ QueryVersions(r)
    \/ Archive(r)

\* One request that arrives by create_flow_from_compressed_string.
CompressedNext == resolve_create_flow_from_compressed_string(1)
CompressedSpec == Init /\ [][CompressedNext]_vars

\* --------------------------------------------------- flow_id pass-throughs

\* The flow_id a caller may submit: the id of a stored flow, an id no flow
\* has, null or the empty string.
FlowIdOf(i) == ToString(i)
FlowIdInputs == {FlowIdOf(i) : i \in 1..MaxInit} \cup {"no-such-flow", None, Empty}

\* Flows removed by a delete_flow that succeeded.
Deleted ==
    {i \in FlowIds(flows) :
        \E r \in Requests : \E k \in 1..Len(ops[r]) :
            ops[r][k] = Op("delete_flow", FlowIdOf(i), i, "ok")}

\* models.Flow.where(id=...).first(): the index of the flow with that id,
\* 0 when there is none.
FlowWithId(id) ==
    IF \E i \in FlowIds(flows) \ Deleted : FlowIdOf(i) = id
    THEN CHOOSE i \in FlowIds(flows) \ Deleted : FlowIdOf(i) = id
    ELSE 0

\* How a delegated operation on a flow may end: it took effect, it
\* affected no row, or it raised.  Without a flow of that id it cannot take
\* effect.
DelegateOutcomes(flow) == IF flow = 0 THEN {"false", "raise"} ELSE ArchiveOutcomes

PassThroughCall(field, id) == [field |-> field, arg |-> id]

\* The one delegated operation of a pass-through, awaited: the handler
\* returns what the operation returned or raises what it raised.  Of the
\* operations here, archive_flow writes the flow record; the others write
\* tables that only `ops` records.
Delegate(r, id, flow) ==
    \E outcome \in DelegateOutcomes(flow) :
        /\ Issue(r, call'[r].field, id, flow, outcome)
        /\ flows' = IF call'[r].field = "archive_flow" /\ outcome = "ok"
                    THEN StoreArchive(flows, flow) ELSE flows
        /\ IF outcome = "raise"
           THEN Fail(r, "StoreFailure")
           ELSE pc' = [pc EXCEPT ![r] = "done"] /\ UNCHANGED error

\* Lines 91-92, 107-108: `if flow_id is None`.
FlowIdIsNone(id) == id = None

\* Lines 141, 153, 165, 181: `if not input["flow_id"]`.
FlowIdFalsy(id) == ~Truthy(id)

\* Lines 88-97, 104-113: register_tasks and register_edges.
RegisterRejects(r, field) ==
    /\ pc[r] = "idle"
    /\ \E id \in FlowIdInputs :
         /\ FlowIdIsNone(id)
         /\ call' = [call EXCEPT ![r] = PassThroughCall(field, id)]
    /\ Fail(r, "ValueError")
    /\ UNCHANGED <<flows, creator, input, version_group_id, new_version_group, flow_id,
                   versions, queried, ops>>

Register(r, field) ==
    /\ pc[r] = "idle"
    /\ \E id \in FlowIdInputs :
         /\ ~FlowIdIsNone(id)
         /\ call' = [call EXCEPT ![r] = PassThroughCall(field, id)]
         /\ Delegate(r, id, FlowWithId(id))
    /\ UNCHANGED <<creator, input, version_group_id, new_version_group, flow_id,
                   versions, queried>>

resolve_register_tasks(r) ==
    \/ RegisterRejects(r, "register_tasks")
    \/ Register(r, "register_tasks")

resolve_register_edges(r) ==
    \/ RegisterRejects(r, "register_edges")
    \/ Register(r, "register_edges")

\* Lines 117-118, 122-123, 199, 206: input["flow_id"] goes to the
\* operation as it came.
Forward(r, field) ==
    /\ pc[r] = "idle"
    /\ \E id \in FlowIdInputs :
         /\ call' = [call EXCEPT ![r] = PassThroughCall(field, id)]
         /\ Delegate(r, id, FlowWithId(id))
    /\ UNCHANGED <<creator, input, version_group_id, new_version_group, flow_id,
                   versions, queried>>

resolve_delete_flow(r) == Forward(r, "delete_flow")
resolve_archive_flow(r) == Forward(r, "archive_flow")
resolve_set_schedule_active(r) == Forward(r, "set_schedule_active")
resolve_set_schedule_inactive(r) == Forward(r, "set_schedule_inactive")

\* Lines 141-142 (153-154, 165-166, 181-182).
ToggleRejects(r, field) ==
    /\ pc[r] = "idle"
    /\ \E id \in FlowIdInputs :
         /\ FlowIdFalsy(id)
         /\ call' = [call EXCEPT ![r] = PassThroughCall(field, id)]
    /\ Fail(r, "ValueError")
    /\ UNCHANGED <<flows, creator, input, version_group_id, new_version_group, flow_id,
                   versions, queried, ops>>

\* Lines 143-145: the lookup of the flow raises, finds no flow, or finds
\* the flow whose flow group the toggle is for.
ToggleLookup(r, field) ==
    /\ pc[r] = "idle"
    /\ \E id \in FlowIdInputs, result \in {"ok", "raise"} :
         /\ ~FlowIdFalsy(id)
         /\ call' = [call EXCEPT ![r] = PassThroughCall(field, id)]
         /\ Issue(r, "lookup_id", id, IF result = "ok" THEN FlowWithId(id) ELSE 0, result)
         /\ IF result = "raise" THEN Fail(r, "StoreFailure")
            ELSE IF FlowWithId(id) = 0 THEN Fail(r, "ValueError")
            ELSE pc' = [pc EXCEPT ![r] = "looked_up"] /\ UNCHANGED error
    /\ UNCHANGED <<flows, creator, input, version_group_id, new_version_group, flow_id,
                   versions, queried>>

\* Lines 146-147: the flow_groups operation on the group of the flow found.
ToggleDelegate(r, field) ==
    /\ pc[r] = "looked_up"
    /\ call[r].field = field
    /\ UNCHANGED call
    /\ Delegate(r, flows[ops[r][Len(ops[r])].flow].version_group_id,
                ops[r][Len(ops[r])].flow)
    /\ UNCHANGED <<creator, input, version_group_id, new_version_group, flow_id,
                   versions, queried>>

Toggle(r, field) ==
    \/ ToggleRejects(r, field)
    \/ ToggleLookup(r, field)
    \/ ToggleDelegate(r, field)

resolve_disable_heartbeat_for_flow(r) == Toggle(r, "disable_flow_heartbeat")
resolve_enable_heartbeat_for_flow(r) == Toggle(r, "enable_flow_heartbeat")
resolve_enable_flow_lazarus_process(r) == Toggle(r, "enable_flow_lazarus_process")
resolve_disable_flow_lazarus_process(r) == Toggle(r, "disable_flow_lazarus_process")

\* One request to one of the flow_id pass-throughs, against any store.
PassThroughNext ==
    \/ resolve_register_tasks(1)
    \/ resolve_register_edges(1)
    \/ resolve_delete_flow(1)
    \/ resolve_archive_flow(1)
    \/ resolve_disable_heartbeat_for_flow(1)
    \/ resolve_enable_heartbeat_for_flow(1)
    \/ resolve_enable_flow_lazarus_process(1)
    \/ resolve_disable_flow_lazarus_process(1)
    \/ resolve_set_schedule_active(1)
    \/ resolve_set_schedule_inactive(1)
PassThroughSpec == Init /\ [][PassThroughNext]_vars

\* One request that its caller may cancel at any await.
CancellableNext == resolve_create_flow(1) \/ Cancel(1)
CancellableSpec == Init /\ [][CancellableNext]_vars

\* Several requests, interleaved at their awaits.
ConcurrentInit == InitWith(MaxInitConcurrent)
ConcurrentNext == \E r \in Requests : resolve_create_flow(r)
ConcurrentSpec == ConcurrentInit /\ [][ConcurrentNext]_vars

TypeOK ==
    /\ Len(creator) = Len(flows)
    /\ \A r \in Requests :
         /\ pc[r] \in {"idle", "resolved", "created", "archiving", "done", "failed",
                      "cancelled", "looked_up"}
         /\ flow_id[r] \in 0..Len(flows)
         /\ versions[r] \subseteq FlowIds(flows)
         /\ error[r] \in {"none", "ValueError", "StoreFailure", "CancelledError", "TypeError"}
         /\ new_version_group[r] \in BOOLEAN

\* -------------------------------------------------------------------- claims

\* A version group identifier is unset when the caller gave none (null, or
\* the empty string of an optional GraphQL field).
Unset(vgid) == vgid = None \/ vgid = Empty

\* The records that were in the store before request r created its own.
Existing(r) == {i \in FlowIds(flows) : creator[i] # r}

\* The lookup of request r has returned.
LookupReturned(r) == ops[r] # <<>> /\ ops[r][1].result = "ok"

\* The archive requests request r has issued.
ArchiveOps(r) == {k \in 1..Len(ops[r]) : ops[r][k].op = "archive"}

UnarchivedInGroup(vgid) ==
    {i \in FlowIds(flows) : flows[i].version_group_id = vgid /\ ~flows[i].archived}

\* C1: after any createFlow call that returns successfully with no concurrent
\* interference, the version group of the new record holds exactly one
\* unarchived record, the new one.  (The code breaks this when an archive
\* call returns False: see C10.)
C1_ExactlyNewUnarchived ==
    \A r \in Requests :
        pc[r] = "done" =>
            UnarchivedInGroup(flows[flow_id[r]].version_group_id) = {flow_id[r]}

\* C2: with an unset versionGroupId and at least one existing record of the
\* same name in the same project, resolution yields the version group of a
\* most recently created such record and isNewGroup = false, and the new
\* flow is created under that version group.
C2_LineageReuseByName ==
    \A r \in Requests :
        LET same == {i \in Existing(r) : /\ flows[i].project_id = input[r].project_id
                                         /\ flows[i].name = input[r].name}
        IN (LookupReturned(r) /\ Unset(input[r].version_group_id) /\ same # {}) =>
              /\ new_version_group[r] = FALSE
              /\ \E i \in same :
                    /\ \A j \in same : flows[j].created <= flows[i].created
                    /\ version_group_id[r] = flows[i].version_group_id
              /\ flow_id[r] # 0 =>
                    flows[flow_id[r]].version_group_id = version_group_id[r]

\* C2 witness: a request without versionGroupId has returned after reusing
\* the group of the later of two same-named records of different groups.
C2_Witness ==
    \E r \in Requests :
        /\ pc[r] = "done"
        /\ Unset(input[r].version_group_id)
        /\ \E i, j \in Existing(r) :
              /\ flows[i].project_id = input[r].project_id
              /\ flows[j].project_id = input[r].project_id
              /\ flows[i].name = input[r].name
              /\ flows[j].name = input[r].name
              /\ flows[i].created < flows[j].created
              /\ flows[i].version_group_id # flows[j].version_group_id
              /\ flows[flow_id[r]].version_group_id = flows[j].version_group_id

\* C3: with an unset versionGroupId and no existing record of the same name
\* in the same project, isNewGroup = true and create is called with the
\* version group unset, so that the store mints it.
C3_NewLineageMinting ==
    \A r \in Requests :
        LET same == {i \in Existing(r) : /\ flows[i].project_id = input[r].project_id
                                         /\ flows[i].name = input[r].name}
        IN (LookupReturned(r) /\ Unset(input[r].version_group_id) /\ same = {}) =>
              /\ new_version_group[r] = TRUE
              /\ Unset(version_group_id[r])
              /\ \A k \in 1..Len(ops[r]) :
                    ops[r][k].op = "create" => Unset(ops[r][k].arg)
              /\ flow_id[r] # 0 =>
                    \A i \in Existing(r) :
                        flows[i].version_group_id # flows[flow_id[r]].version_group_id

\* C3 witness: a request without versionGroupId has created a flow while a
\* record of the same name exists in another project only.
C3_Witness ==
    \E r \in Requests :
        /\ pc[r] = "done"
        /\ input[r].version_group_id = None
        /\ new_version_group[r]
        /\ flow_id[r] # 0
        /\ \E i \in Existing(r) : /\ flows[i].name = input[r].name
                                  /\ flows[i].project_id # input[r].project_id

\* C4: with a set versionGroupId, isNewGroup = true exactly when no existing
\* record of any project carries it, and the flow is created under the
\* supplied versionGroupId unchanged.
C4_ExplicitGroupHonored ==
    \A r \in Requests :
        (LookupReturned(r) /\ ~Unset(input[r].version_group_id)) =>
            /\ new_version_group[r] =
                  (\A i \in Existing(r) :
                      flows[i].version_group_id # input[r].version_group_id)
            /\ version_group_id[r] = input[r].version_group_id
            /\ flow_id[r] # 0 =>
                  flows[flow_id[r]].version_group_id = input[r].version_group_id

\* C4 witness: a flow was created under a supplied versionGroupId that only
\* an archived record of another project carried: isNewGroup = false.
C4_Witness ==
    \E r \in Requests :
        /\ pc[r] = "done"
        /\ input[r].version_group_id \in Groups
        /\ ~new_version_group[r]
        /\ flows[flow_id[r]].version_group_id = input[r].version_group_id
        /\ \A i \in Existing(r) :
              flows[i].version_group_id = input[r].version_group_id =>
                  /\ flows[i].project_id # input[r].project_id
                  /\ flows[i].archived

\* C5: a request whose resolution gave isNewGroup = true issues no archive
\* request, however it is interleaved with other createFlow requests.
C5_NoArchiveOnNewGroup ==
    \A r \in Requests :
        (LookupReturned(r) /\ new_version_group[r]) => ArchiveOps(r) = {}

\* C6: when supersession has ended, an archive request was attempted for
\* every sibling the query found, also when the archive of another sibling
\* failed.
C6_EverySiblingAttempted ==
    \A r \in Requests :
        pc[r] \in {"done", "failed"} =>
            \A v \in versions[r] : \E k \in ArchiveOps(r) : ops[r][k].flow = v

\* C7: a submission whose projectId is null or empty fails before any store
\* operation is issued and leaves the store unchanged.
C7_FailFastOnProjectId ==
    \A r \in Requests :
        (pc[r] # "idle" /\ input[r].project_id \in {None, Empty}) =>
            /\ pc[r] = "failed"
            /\ ops[r] = <<>>
            /\ \A i \in FlowIds(flows) : creator[i] # r

\* C8 as stated: whenever createFlow returns an error, no record created by
\* that call is in the store.
C8_NoFlowOnAnyError ==
    \A r \in Requests :
        pc[r] = "failed" => \A i \in FlowIds(flows) : creator[i] # r

\* The error of request r came from validation, the lookup or the create.
FailedUpToCreate(r) ==
    /\ pc[r] = "failed"
    /\ \/ error[r] = "ValueError"
       \/ /\ ops[r] # <<>>
          /\ ops[r][Len(ops[r])].op \in {"lookup_name", "lookup_group", "create"}

\* C8 amended: whenever createFlow returns an error raised by validation, by
\* the lookup or by the create operation, no record created by that call is
\* in the store.
C8_NoFlowOnErrorUpToCreate ==
    \A r \in Requests :
        FailedUpToCreate(r) => \A i \in FlowIds(flows) : creator[i] # r

\* C8 witness: the create operation raised and the store holds only the
\* records it held before.
C8_Witness ==
    \E r \in Requests :
        /\ pc[r] = "failed"
        /\ ops[r] # <<>>
        /\ ops[r][Len(ops[r])].op = "create"
        /\ flows # <<>>
        /\ \A i \in FlowIds(flows) : creator[i] = 0

\* C9: once create has succeeded the new record stays in the store
\* unarchived, whatever the archive operations do, and the request never
\* asks to archive the record it created.
C9_NewVersionNeverRolledBack ==
    \A r \in Requests :
        flow_id[r] # 0 =>
            /\ flow_id[r] \in FlowIds(flows)
            /\ creator[flow_id[r]] = r
            /\ ~flows[flow_id[r]].archived
            /\ \A k \in ArchiveOps(r) : ops[r][k].flow # flow_id[r]

\* C9 witness: an archive operation raised after the create, and the new
\* record is still there, unarchived.
C9_Witness ==
    \E r \in Requests :
        /\ pc[r] = "failed"
        /\ flow_id[r] # 0
        /\ ops[r][Len(ops[r])].op = "archive"
        /\ ops[r][Len(ops[r])].result = "raise"
        /\ ~flows[flow_id[r]].archived

\* C10: createFlow does not return a plain success when an archive
\* operation of its supersession failed, by raising or by returning False.
C10_ArchiveFailureSurfaced ==
    \A r \in Requests :
        pc[r] = "done" => \A k \in ArchiveOps(r) : ops[r][k].result = "ok"

\* What holds of the code in place of C1: a call that returns and whose
\* archive operations all reported success leaves the new record as the
\* only unarchived one of its group.
SteadyStateWhenArchivesSucceed ==
    \A r \in Requests :
        (pc[r] = "done" /\ \A k \in ArchiveOps(r) : ops[r][k].result = "ok") =>
            UnarchivedInGroup(flows[flow_id[r]].version_group_id) = {flow_id[r]}

\* C11: within one request the store operations follow one another: the
\* lookup has returned before create is issued, and create has returned
\* before the sibling query and before any archive request is issued.
C11_StepsSequential ==
    \A r \in Requests :
        \A k \in 1..Len(ops[r]) :
            LET o == ops[r][k]
                Returned(j, names) == /\ j < k
                                      /\ ops[r][j].op \in names
                                      /\ ops[r][j].result = "ok"
            IN /\ o.op \in {"lookup_name", "lookup_group"} => k = 1
               /\ o.op = "create" =>
                     k = 2 /\ Returned(1, {"lookup_name", "lookup_group"})
               /\ o.op = "query_versions" => k = 3 /\ Returned(2, {"create"})
               /\ o.op = "archive" =>
                     /\ k >= 4
                     /\ Returned(2, {"create"})
                     /\ Returned(3, {"query_versions"})
                     /\ ops[r][2].flow # o.flow

\* C11 witness: a request went through lookup, create, sibling query and
\* two archive requests.
C11_Witness ==
    \E r \in Requests :
        /\ pc[r] = "done"
        /\ Len(ops[r]) = 5
        /\ ops[r][4].op = "archive"
        /\ ops[r][5].op = "archive"

\* The sibling query of request r has returned.
QueryReturned(r) ==
    \E k \in 1..Len(ops[r]) : ops[r][k].op = "query_versions" /\ ops[r][k].result = "ok"

\* The records that, when the sibling query of request r read the store,
\* had the version group of r, another id than the new flow and
\* archived = false.
SiblingsAtQuery(r) ==
    {i \in 1..Len(queried[r]) : /\ queried[r][i].version_group_id = version_group_id[r]
                                /\ i # flow_id[r]
                                /\ ~queried[r][i].archived}

\* The archive requests of request r for record i.
ArchiveOpsFor(r, i) == {k \in ArchiveOps(r) : ops[r][k].flow = i}

\* C12: a request that has ended after its sibling query issued one archive
\* request for each record that was an unarchived sibling at the time of
\* the query and none for any other record (its own included); a request
\* without version group issues no sibling query and no archive request.
C12_SupersessionTargets ==
    \A r \in Requests :
        /\ (pc[r] \in {"done", "failed"} /\ QueryReturned(r)) =>
              \A i \in FlowIds(flows) :
                  Cardinality(ArchiveOpsFor(r, i)) =
                      IF i \in SiblingsAtQuery(r) THEN 1 ELSE 0
        /\ (flow_id[r] # 0 /\ Unset(version_group_id[r])) =>
              \A k \in 1..Len(ops[r]) : ops[r][k].op \notin {"query_versions", "archive"}

\* What holds of the code in place of C12: archive requests go only to
\* siblings the query found, at most one each and never to the new flow;
\* a request that returns has issued one for each; without version group
\* there is no sibling query and no archive request.
SupersessionTargetsUpToRaise ==
    \A r \in Requests :
        /\ \A i \in FlowIds(flows) :
              /\ Cardinality(ArchiveOpsFor(r, i)) <= 1
              /\ ArchiveOpsFor(r, i) # {} => i \in SiblingsAtQuery(r) /\ i # flow_id[r]
        /\ (pc[r] = "done" /\ QueryReturned(r)) =>
              \A i \in SiblingsAtQuery(r) : ArchiveOpsFor(r, i) # {}
        /\ (flow_id[r] # 0 /\ Unset(version_group_id[r])) =>
              \A k \in 1..Len(ops[r]) : ops[r][k].op \notin {"query_versions", "archive"}

\* Requests r and q both extended the same existing version group and each
\* has created its record.
SharedLineage(r, q) ==
    /\ r # q
    /\ flow_id[r] # 0
    /\ flow_id[q] # 0
    /\ ~new_version_group[r]
    /\ ~new_version_group[q]
    /\ Truthy(version_group_id[r])
    /\ version_group_id[r] = version_group_id[q]

\* C13: the race on a shared lineage.  The record a request created is
\* archived only by another request of the same version group whose sibling
\* query read the store after that record was created and found it
\* unarchived: which new record ends archived depends on how the sibling
\* queries interleave with the creates, and until one of them runs both new
\* records are unarchived (C13_Witness, C13_EarlierNewArchived and
\* C13_LaterNewArchived are the three reachable outcomes).
C13_ArchivedOnlyByRacingRequest ==
    \A r \in Requests :
        (flow_id[r] # 0 /\ flows[flow_id[r]].archived) =>
            \E q \in Requests \ {r} :
                /\ version_group_id[q] = flows[flow_id[r]].version_group_id
                /\ flow_id[r] \in SiblingsAtQuery(q)
                /\ \E k \in ArchiveOpsFor(q, flow_id[r]) : ops[q][k].result = "ok"

\* C13 witness: two requests resolved to the same existing group, both have
\* created, and both new records are unarchived at the same time.
C13_Witness ==
    \E r, q \in Requests :
        /\ SharedLineage(r, q)
        /\ ~flows[flow_id[r]].archived
        /\ ~flows[flow_id[q]].archived

\* C13, first outcome: both requests have returned and only the record
\* created first is archived.
C13_EarlierNewArchived ==
    \E r, q \in Requests :
        /\ SharedLineage(r, q)
        /\ pc[r] = "done" /\ pc[q] = "done"
        /\ flow_id[r] < flow_id[q]
        /\ flows[flow_id[r]].archived
        /\ ~flows[flow_id[q]].archived

\* C13, second outcome: the record created last is archived, by the request
\* that created first.
C13_LaterNewArchived ==
    \E r, q \in Requests :
        /\ SharedLineage(r, q)
        /\ flow_id[r] < flow_id[q]
        /\ flows[flow_id[q]].archived
        /\ ~flows[flow_id[r]].archived

\* Every request that created a record has returned, and every archive
\* operation issued so far succeeded.
Quiescent ==
    \A r \in Requests :
        /\ flow_id[r] # 0 => pc[r] = "done"
        /\ pc[r] \in {"idle", "done", "failed"}
        /\ \A k \in ArchiveOps(r) : ops[r][k].result = "ok"

\* C17: once all concurrent requests have completed and every archive
\* operation succeeded, each version group that a request created a record
\* in with a known versionGroupId holds at most one unarchived record.
C17_QuiescentAtMostOne ==
    Quiescent =>
        \A r \in Requests :
            (flow_id[r] # 0 /\ Truthy(version_group_id[r])) =>
                Cardinality(UnarchivedInGroup(version_group_id[r])) <= 1

\* C17 witness: two requests created records in the same group, both have
\* returned with every archive succeeded, and one unarchived record is left.
C17_Witness ==
    /\ Quiescent
    /\ \E r, q \in Requests :
          /\ r # q
          /\ flow_id[r] # 0 /\ flow_id[q] # 0
          /\ Truthy(version_group_id[r])
          /\ version_group_id[r] = version_group_id[q]
          /\ Cardinality(UnarchivedInGroup(version_group_id[r])) = 1

\* Request r archived the record that request q created.
ArchivedRecordOf(r, q) ==
    /\ flow_id[q] # 0
    /\ \E k \in ArchiveOpsFor(r, flow_id[q]) : ops[r][k].result = "ok"

\* C18: a lineage can lose its current version.  When all requests have
\* returned with every archive succeeded and the version group of a request
\* holds no unarchived record, a request that created its record earlier
\* has archived the record another request created later: the zero state
\* comes from cross-archiving between requests and from nothing else
\* (C18_Witness is the interleaving in which it happens).
C18_ZeroOnlyByCrossArchive ==
    Quiescent =>
        \A r \in Requests :
            (/\ flow_id[r] # 0
             /\ Truthy(version_group_id[r])
             /\ UnarchivedInGroup(version_group_id[r]) = {}) =>
                \E p, q \in Requests :
                    /\ version_group_id[p] = version_group_id[r]
                    /\ version_group_id[q] = version_group_id[r]
                    /\ flow_id[p] # 0
                    /\ flow_id[p] < flow_id[q]
                    /\ ArchivedRecordOf(p, q)

\* C18 witness: two requests on the same version group have both returned
\* successfully, each archived the record the other created, and the group
\* holds no unarchived record.
C18_Witness ==
    \E r, q \in Requests :
        /\ r # q
        /\ pc[r] = "done" /\ pc[q] = "done"
        /\ version_group_id[r] = version_group_id[q]
        /\ ArchivedRecordOf(r, q)
        /\ ArchivedRecordOf(q, r)
        /\ \A k \in ArchiveOps(r) : ops[r][k].result = "ok"
        /\ \A k \in ArchiveOps(q) : ops[q][k].result = "ok"
        /\ UnarchivedInGroup(version_group_id[r]) = {}

\* The records of any project that carried the versionGroupId request r was
\* given, other than the new flow, unarchived when the sibling query ran.
CarriersAtQuery(r) ==
    {i \in 1..Len(queried[r]) : /\ queried[r][i].version_group_id = input[r].version_group_id
                                /\ i # flow_id[r]
                                /\ ~queried[r][i].archived}

C20_Frame ==
    [][\A r \in Requests :
          ops'[r] # ops[r] =>
              /\ Len(flows') >= Len(flows)
              /\ \A i \in FlowIds(flows) :
                    \/ flows'[i] = flows[i]
                    \/ /\ Truthy(version_group_id[r])
                       /\ flows[i].version_group_id = version_group_id[r]
                       /\ flows'[i].project_id = flows[i].project_id
                       /\ flows'[i].name = flows[i].name
                       /\ flows'[i].version_group_id = flows[i].version_group_id
                       /\ flows'[i].created = flows[i].created]_vars

\* C20 witness: a request has archived a record of its version group while
\* an unarchived record of another group is in the store.
C20_Witness ==
    \E r \in Requests :
        /\ pc[r] = "done"
        /\ \E i, j \in FlowIds(flows) :
              /\ \E k \in ArchiveOpsFor(r, i) : ops[r][k].result = "ok"
              /\ flows[i].archived
              /\ flows[j].version_group_id # version_group_id[r]
              /\ ~flows[j].archived

\* C14: a request cancelled after its create has committed still runs its
\* supersession to completion: it does not stop before the sibling query
\* has run and every sibling found has had its archive request.
C14_SupersessionSurvivesCancel ==
    \A r \in Requests :
        (/\ pc[r] = "cancelled"
         /\ flow_id[r] # 0
         /\ Truthy(version_group_id[r])) =>
            /\ QueryReturned(r)
            /\ \A i \in SiblingsAtQuery(r) : ArchiveOpsFor(r, i) # {}

\* A payload is the compressed form of the flow named n.
IsCompressionOf(payload, n) == payload = Compress(n)

\* C15: a request that arrived by create_flow_from_compressed_string with a
\* payload that does not decompress has failed with an error before any
\* store operation, and nothing was created; with a payload that
\* decompresses it runs createFlow on the decoded flow: the submission is
\* the decoded one, the operations are those of createFlow in their order,
\* and what it creates carries the decoded name.
C15_DecodeFailureCreatesNothing ==
    \A r \in Requests :
        (pc[r] # "idle" /\ call[r].field = "create_flow_from_compressed_string") =>
            IF \E n \in Names : IsCompressionOf(call[r].arg, n)
            THEN /\ IsCompressionOf(call[r].arg, input[r].name)
                 /\ error[r] # "TypeError"
                 /\ \A k \in 1..Len(ops[r]) :
                       ops[r][k].op = "lookup_name" => ops[r][k].arg = input[r].name
                 /\ \A i \in FlowIds(flows) :
                       creator[i] = r => IsCompressionOf(call[r].arg, flows[i].name)
                 /\ C11_StepsSequential
            ELSE /\ pc[r] = "failed"
                 /\ error[r] = "TypeError"
                 /\ ops[r] = <<>>
                 /\ \A i \in FlowIds(flows) : creator[i] # r

\* C15 witness: a payload that is not a compressed flow was rejected, the
\* store being non-empty and untouched.
C15_Witness ==
    \E r \in Requests :
        /\ call[r] = CompressedCall("not-compressed")
        /\ pc[r] = "failed"
        /\ error[r] = "TypeError"
        /\ flows # <<>>

\* C15, the other branch: a compressed flow was decoded and created.
C15_DecodedAndCreated ==
    \E r \in Requests :
        /\ call[r] = CompressedCall(Compress("other"))
        /\ pc[r] = "done"
        /\ flows[flow_id[r]].name = "other"

\* The operations that take the id of a flow.
RegisterFields == {"register_tasks", "register_edges"}
ForwardFields == {"delete_flow", "archive_flow", "set_schedule_active",
                  "set_schedule_inactive"}
ToggleFields == {"disable_flow_heartbeat", "enable_flow_heartbeat",
                 "enable_flow_lazarus_process", "disable_flow_lazarus_process"}
FlowIdentifiedFields == RegisterFields \cup ForwardFields \cup ToggleFields

\* Request r has acted on a flow_id that is null or empty.
MissingFlowId(r) ==
    /\ pc[r] # "idle"
    /\ call[r].arg \in {None, Empty}

\* Request r raised an invalid-argument error before any store operation.
RejectedBeforeIO(r) ==
    /\ pc[r] = "failed"
    /\ error[r] = "ValueError"
    /\ ops[r] = <<>>

\* C16: in every flow-identified operation, a request with a null or empty
\* flowId has raised an invalid-argument error and has issued no store
\* lookup and no delegated mutation.
C16_MissingFlowIdRejected ==
    \A r \in Requests :
        (call[r].field \in FlowIdentifiedFields /\ MissingFlowId(r)) => RejectedBeforeIO(r)

\* What the code does guarantee: the heartbeat and lazarus toggles reject a
\* null or empty flowId before any I/O, register_tasks and register_edges a
\* null one.
MissingFlowIdRejectedWhereChecked ==
    \A r \in Requests :
        /\ (call[r].field \in ToggleFields /\ MissingFlowId(r)) => RejectedBeforeIO(r)
        /\ (call[r].field \in RegisterFields /\ pc[r] # "idle" /\ call[r].arg = None)
              => RejectedBeforeIO(r)

\* register_tasks delegated with the empty flowId.
EmptyFlowIdRegistered ==
    \E r \in Requests :
        /\ call[r] = PassThroughCall("register_tasks", Empty)
        /\ ops[r] # <<>>

\* archive_flow delegated with a null flowId.
NullFlowIdForwarded ==
    \E r \in Requests :
        /\ call[r] = PassThroughCall("archive_flow", None)
        /\ ops[r] # <<>>
====
